---- MODULE Spec2Model ----
(***************************************************************************)
(* A model of stix2/properties.py: the property kinds (Property,           *)
(* ListProperty, StringProperty, TypeProperty, IDProperty,                 *)
(* BooleanProperty, TimestampProperty, ReferenceProperty,                  *)
(* SelectorProperty) and their validate / default operations.              *)
(*                                                                         *)
(* Python values are records with one shape (ValOf); text is a sequence of *)
(* one-character strings, so that prefixes, splits and the two regular     *)
(* expressions are computed character by character.  A call's outcome is a *)
(* record that is either a returned value or a raised exception with its   *)
(* class name (ValueError, AttributeError, TypeError).                     *)
(***************************************************************************)
EXTENDS Integers, Sequences, FiniteSets, TLC

VARIABLES ctor, prop, input, pc, result, result2

vars == <<ctor, prop, input, pc, result, result2>>

(***************************************************************************)
(* Bounds of the explored inputs.                                          *)
(***************************************************************************)
MaxInt == 2
MaxListLen == 2

(***************************************************************************)
(* Characters and text.                                                    *)
(***************************************************************************)
Digits == {"0", "1", "2", "3", "4", "5", "6", "7", "8", "9"}

LowerAlpha ==
  {"a", "b", "c", "d", "e", "f", "g", "h", "i", "j", "k", "l", "m",
   "n", "o", "p", "q", "r", "s", "t", "u", "v", "w", "x", "y", "z"}

HexChars == Digits \cup {"a", "b", "c", "d", "e", "f", "A", "B", "C", "D", "E", "F"}

DigitChars == <<"0", "1", "2", "3", "4", "5", "6", "7", "8", "9">>

DigitVal(c) == (CHOOSE i \in 1..10 : DigitChars[i] = c) - 1

Rep(c, n) == [i \in 1..n |-> c]

AllIn(s, S) == \A i \in 1..Len(s) : s[i] \in S

\* str.startswith
StartsWith(s, p) == Len(s) >= Len(p) /\ SubSeq(s, 1, Len(p)) = p

\* index of the first occurrence of pat in s, 0 when there is none (str.find + 1)
FindFirst(s, pat) ==
  LET hits == {i \in 1..(Len(s) - Len(pat) + 1) : SubSeq(s, i, i + Len(pat) - 1) = pat}
  IN IF hits = {} THEN 0 ELSE CHOOSE i \in hits : \A j \in hits : i <= j

\* str.replace(pat, ''): every non-overlapping occurrence, left to right
RECURSIVE Remove(_, _)
Remove(s, pat) ==
  LET i == FindFirst(s, pat)
  IN IF i = 0 THEN s
     ELSE SubSeq(s, 1, i - 1) \o Remove(SubSeq(s, i + Len(pat), Len(s)), pat)

\* str.strip(chars)
RECURSIVE LStrip(_, _)
LStrip(s, S) == IF Len(s) > 0 /\ s[1] \in S THEN LStrip(Tail(s), S) ELSE s

RECURSIVE RStrip(_, _)
RStrip(s, S) ==
  IF Len(s) > 0 /\ s[Len(s)] \in S THEN RStrip(SubSeq(s, 1, Len(s) - 1), S) ELSE s

Strip(s, S) == RStrip(LStrip(s, S), S)

\* str.split(sep, 1)[1]: what follows the first occurrence of sep
AfterFirst(s, sep) ==
  LET i == FindFirst(s, sep) IN SubSeq(s, i + Len(sep), Len(s))

\* str.split(sep) for a one-character separator
RECURSIVE SplitOn(_, _)
SplitOn(s, c) ==
  LET i == FindFirst(s, <<c>>)
  IN IF i = 0 THEN <<s>>
     ELSE <<SubSeq(s, 1, i - 1)>> \o SplitOn(SubSeq(s, i + 1, Len(s)), c)

\* str.lower on the letters of the explored alphabet
LowerChar(c) ==
  CASE c = "A" -> "a" [] c = "B" -> "b" [] c = "C" -> "c" [] c = "D" -> "d"
    [] c = "E" -> "e" [] c = "F" -> "f" [] c = "T" -> "t" [] c = "R" -> "r"
    [] c = "U" -> "u" [] c = "L" -> "l" [] c = "S" -> "s" [] c = "N" -> "n"
    [] c = "Z" -> "z" [] OTHER -> c

Lower(s) == [i \in 1..Len(s) |-> LowerChar(s[i])]

\* decimal digits of a natural number
RECURSIVE NatStr(_)
NatStr(n) == IF n < 10 THEN <<DigitChars[n + 1]>> ELSE NatStr(n \div 10) \o <<DigitChars[(n % 10) + 1]>>

Pad2(n) == <<DigitChars[(n \div 10) + 1], DigitChars[(n % 10) + 1]>>

Pad4(n) == Pad2(n \div 100) \o Pad2(n % 100)

Num2(s, i) == DigitVal(s[i]) * 10 + DigitVal(s[i + 1])

Num4(s, i) == Num2(s, i) * 100 + Num2(s, i + 2)

(***************************************************************************)
(* Python values.                                                          *)
(***************************************************************************)
NoDt == [y |-> 0, mo |-> 0, d |-> 0, h |-> 0, mi |-> 0, aware |-> FALSE, zone |-> "", off |-> 0]

ValOf(k, s, n, b, t, items) == [k |-> k, s |-> s, n |-> n, b |-> b, t |-> t, items |-> items]

VNone == ValOf("none", <<>>, 0, FALSE, NoDt, <<>>)

VStr(s) == ValOf("str", s, 0, FALSE, NoDt, <<>>)

VInt(n) == ValOf("int", <<>>, n, FALSE, NoDt, <<>>)

VBool(b) == ValOf("bool", <<>>, 0, b, NoDt, <<>>)

\* datetime.datetime; aware = FALSE is a naive datetime
VDateTime(y, mo, d, h, mi, aware, zone, off) ==
  ValOf("datetime", <<>>, 0, FALSE,
        [y |-> y, mo |-> mo, d |-> d, h |-> h, mi |-> mi, aware |-> aware, zone |-> zone, off |-> off],
        <<>>)

\* datetime.date
VDate(y, mo, d) ==
  ValOf("date", <<>>, 0, FALSE,
        [y |-> y, mo |-> mo, d |-> d, h |-> 0, mi |-> 0, aware |-> FALSE, zone |-> "", off |-> 0],
        <<>>)

VList(items) == ValOf("list", <<>>, 0, FALSE, NoDt, items)

\* a dict, by its keys (each a VStr); every key maps to None
VDict(keys) == ValOf("dict", <<>>, 0, FALSE, NoDt, keys)

\* an instance of _STIXBase, by its id attribute
VObj(id) == ValOf("obj", id, 0, FALSE, NoDt, <<>>)

(***************************************************************************)
(* Outcomes of a call: a returned value or a raised exception.             *)
(***************************************************************************)
Ok(v) == [ok |-> TRUE, val |-> v, err |-> "", msg |-> "", arg |-> <<>>]

Raise(kind, msg, arg) == [ok |-> FALSE, val |-> VNone, err |-> kind, msg |-> msg, arg |-> arg]

NoResult == [ok |-> FALSE, val |-> VNone, err |-> "", msg |-> "", arg |-> <<>>]

(***************************************************************************)
(* Built-in conversions and comparisons the code relies on.                *)
(***************************************************************************)
\* datetime.isoformat(' ') / date.isoformat(), as str() prints them
DtStr(v) ==
  LET t == v.t
      day == Pad4(t.y) \o <<"-">> \o Pad2(t.mo) \o <<"-">> \o Pad2(t.d)
      a == IF t.off < 0 THEN 0 - t.off ELSE t.off
      zone == IF t.aware
              THEN <<IF t.off < 0 THEN "-" ELSE "+">> \o Pad2(a \div 60) \o <<":">> \o Pad2(a % 60)
              ELSE <<>>
  IN IF v.k = "date" THEN day
     ELSE day \o <<" ">> \o Pad2(t.h) \o <<":">> \o Pad2(t.mi) \o <<":", "0", "0">> \o zone

\* the text type's constructor, str(value) (string_type in StringProperty)
RECURSIVE PyStr(_)
PyStr(v) ==
  LET RECURSIVE Join(_, _)
      Join(xs, i) ==
        IF i > Len(xs) THEN <<>>
        ELSE (IF i > 1 THEN <<",", " ">> ELSE <<>>)
             \o <<"'">> \o xs[i].s \o <<"'", ":", " ", "N", "o", "n", "e">>
             \o Join(xs, i + 1)
  IN CASE v.k = "str" -> v.s
       [] v.k = "int" -> IF v.n < 0 THEN <<"-">> \o NatStr(0 - v.n) ELSE NatStr(v.n)
       [] v.k = "bool" -> IF v.b THEN <<"T", "r", "u", "e">> ELSE <<"F", "a", "l", "s", "e">>
       [] v.k = "none" -> <<"N", "o", "n", "e">>
       [] v.k \in {"date", "datetime"} -> DtStr(v)
       [] v.k = "dict" -> <<"{">> \o Join(v.items, 1) \o <<"}">>

\* bool(value)
Truthy(v) ==
  CASE v.k = "none" -> FALSE
    [] v.k = "str" -> Len(v.s) > 0
    [] v.k = "int" -> v.n # 0
    [] v.k = "bool" -> v.b
    [] v.k \in {"list", "dict"} -> Len(v.items) > 0
    [] OTHER -> TRUE

IsNumber(v) == v.k \in {"int", "bool"}

NumberOf(v) == IF v.k = "bool" THEN (IF v.b THEN 1 ELSE 0) ELSE v.n

\* value == other (bool is a subclass of int: True == 1, False == 0)
PyEq(a, b) ==
  IF IsNumber(a) /\ IsNumber(b) THEN NumberOf(a) = NumberOf(b) ELSE a = b

\* hasattr(value, 'startswith') / the argument re.match accepts
IsStr(v) == v.k = "str"

(***************************************************************************)
(* Property descriptors.  Property.__init__ rebinds validate and default   *)
(* on the instance; validateBound, defaultBound and cleanBound record      *)
(* which function each name is bound to after construction.                *)
(***************************************************************************)
NoArg == [given |-> FALSE, val |-> VNone]

Arg(v) == [given |-> TRUE, val |-> v]

\* the function passed as clean= : lambda v: str(v).lower()
CleanFn(name, v) == VStr(Lower(PyStr(v)))

\* Property.__init__(required, fixed, clean, default, type); kind is the class,
\* classDefault whether that class defines default(); clean and default are
\* NoArg or Arg(f), fixed is VNone when not passed.
PropertyInit(kind, fixed, clean, default, type, classDefault) ==
  LET fx == Truthy(fixed)
  IN [kind |-> kind,
      type |-> type,
      fixed_value |-> IF fx THEN fixed ELSE VNone,
      validateBound |-> IF fx THEN "_default_validate" ELSE "class",
      defaultBound |-> IF default.given THEN "override"
                       ELSE IF fx THEN "fixed"
                       ELSE IF classDefault THEN "class" ELSE "absent",
      defaultValue |-> default.val,
      cleanBound |-> IF clean.given THEN "override" ELSE "class",
      required_prefix |-> <<>>,
      contained |-> "none",
      containedProp |-> <<>>]

\* Property(...)
BaseProperty(fixed, clean, default) == PropertyInit("Property", fixed, clean, default, VNone, FALSE)

\* StringProperty(**kwargs)
StringProperty(fixed, clean, default) == PropertyInit("String", fixed, clean, default, VNone, FALSE)

\* BooleanProperty(**kwargs)
BooleanProperty(fixed, clean, default) == PropertyInit("Boolean", fixed, clean, default, VNone, FALSE)

\* TimestampProperty(**kwargs)
TimestampProperty(fixed, clean, default) == PropertyInit("Timestamp", fixed, clean, default, VNone, FALSE)

\* TypeProperty(type)
TypeProperty(type) == PropertyInit("Type", type, NoArg, NoArg, VNone, FALSE)

\* IDProperty(type)
IDProperty(type) ==
  [PropertyInit("ID", VNone, NoArg, NoArg, VNone, TRUE) EXCEPT !.required_prefix = type \o <<"-", "-">>]

\* ReferenceProperty(required, type)
ReferenceProperty(type) == PropertyInit("Reference", VNone, NoArg, NoArg, type, FALSE)

\* SelectorProperty(type): type is ignored
SelectorProperty(type) == PropertyInit("Selector", VNone, NoArg, NoArg, VNone, FALSE)

(***************************************************************************)
(* Property: the fixed-value check and the base validate.                  *)
(***************************************************************************)
\* Property._default_validate
DefaultValidate(p, value) ==
  IF ~PyEq(value, p.fixed_value)
  THEN Raise("ValueError", "must equal '{0}'.", PyStr(p.fixed_value))
  ELSE Ok(value)

\* Property.clean as bound on the instance
PropertyClean(p, value) ==
  IF p.cleanBound = "override" THEN Ok(CleanFn("lower", value))
  ELSE Raise("NotImplementedError", "", <<>>)

\* Property.validate, c being the outcome of self.clean(value)
PropertyValidateOn(value, c) ==
  IF c.ok THEN c
  ELSE IF c.err = "NotImplementedError" THEN Ok(value) ELSE c

\* Property.validate
PropertyValidate(p, value) == PropertyValidateOn(value, PropertyClean(p, value))

\* Property.__call__
PropertyCall(value) == value

(***************************************************************************)
(* StringProperty                                                          *)
(***************************************************************************)
\* StringProperty.clean (a clean= argument replaces it on the instance)
StringClean(p, value) ==
  IF p.cleanBound = "override" THEN Ok(CleanFn("lower", value)) ELSE Ok(VStr(PyStr(value)))

\* StringProperty.validate
StringValidate(p, value) == StringClean(p, value)

(***************************************************************************)
(* BooleanProperty                                                         *)
(***************************************************************************)
BoolTrues == {<<"t", "r", "u", "e">>, <<"t">>}

BoolFalses == {<<"f", "a", "l", "s", "e">>, <<"f">>}

\* BooleanProperty.clean
BooleanClean(p, value) ==
  IF p.cleanBound = "override" THEN Ok(CleanFn("lower", value))
  ELSE IF value.k = "bool" THEN Ok(value)
  ELSE IF IsStr(value)
       THEN IF Lower(value.s) \in BoolTrues THEN Ok(VBool(TRUE))
            ELSE IF Lower(value.s) \in BoolFalses THEN Ok(VBool(FALSE))
            ELSE Raise("ValueError", "not a coercible boolean value.", <<>>)
  ELSE IF PyEq(value, VInt(1)) THEN Ok(VBool(TRUE))
  ELSE IF PyEq(value, VInt(0)) THEN Ok(VBool(FALSE))
  ELSE Raise("ValueError", "not a coercible boolean value.", <<>>)

\* BooleanProperty.validate, c being the outcome of self.clean(value)
BooleanValidateOn(c) ==
  IF ~c.ok /\ c.err = "ValueError"
  THEN Raise("ValueError", "must be a boolean value.", <<>>)
  ELSE c

\* BooleanProperty.validate
BooleanValidate(p, value) == BooleanValidateOn(BooleanClean(p, value))

(***************************************************************************)
(* IDProperty                                                              *)
(***************************************************************************)
UuidHexLen == 32

\* uuid.UUID(hex, version=4): strips 'urn:', 'uuid:', braces and hyphens,
\* wants 32 hexadecimal digits, and then SETS the version and variant bits
\* of the number it parsed; TRUE when no exception is raised.
UuidDigits(hex) ==
  Remove(Strip(Remove(Remove(hex, <<"u", "r", "n", ":">>), <<"u", "u", "i", "d", ":">>),
               {"{", "}"}),
         <<"-">>)

UuidParses(hex) == Len(UuidDigits(hex)) = UuidHexLen /\ AllIn(UuidDigits(hex), HexChars)

\* IDProperty.validate
IDValidate(p, value) ==
  IF ~IsStr(value) THEN Raise("AttributeError", "startswith", <<>>)
  ELSE IF ~StartsWith(value.s, p.required_prefix)
  THEN Raise("ValueError", "must start with '{0}'.", p.required_prefix)
  ELSE IF ~UuidParses(AfterFirst(value.s, <<"-", "-">>))
  THEN Raise("ValueError", "must have a valid version 4 UUID after the prefix.", <<>>)
  ELSE Ok(value)

\* IDProperty.default, u being str(uuid.uuid4())
IDDefault(p, u) == VStr(p.required_prefix \o u)

(***************************************************************************)
(* ReferenceProperty                                                       *)
(***************************************************************************)
\* [0-9a-fA-F]{8}-[0-9a-fA-F]{4}-[0-9a-fA-F]{4}-[0-9a-fA-F]{4}-[0-9a-fA-F]{12}
UuidTextLen == 8 + 1 + 4 + 1 + 4 + 1 + 4 + 1 + 12

IsUuidText(s) ==
  /\ Len(s) = UuidTextLen
  /\ \A i \in 1..UuidTextLen :
       IF i \in {9, 14, 19, 24} THEN s[i] = "-" ELSE s[i] \in HexChars

\* ^[a-z][a-z-]+[a-z]--<uuid>$ on the whole of s
RefFullMatch(s) ==
  LET n == Len(s) - UuidTextLen - 2
  IN /\ n >= 3
     /\ s[1] \in LowerAlpha
     /\ s[n] \in LowerAlpha
     /\ \A i \in 2..(n - 1) : s[i] \in LowerAlpha \cup {"-"}
     /\ SubSeq(s, n + 1, n + 2) = <<"-", "-">>
     /\ IsUuidText(SubSeq(s, n + 3, Len(s)))

\* REF_REGEX.match(s): $ also matches before a newline that ends the text
RefRegexMatch(s) ==
  \/ RefFullMatch(s)
  \/ Len(s) > 0 /\ s[Len(s)] = "\n" /\ RefFullMatch(SubSeq(s, 1, Len(s) - 1))

\* ReferenceProperty.validate
ReferenceValidate(p, value) ==
  LET v == IF value.k = "obj" THEN VStr(value.s) ELSE value
  IN IF Truthy(p.type) /\ ~IsStr(v) THEN Raise("AttributeError", "startswith", <<>>)
     ELSE IF Truthy(p.type) /\ ~StartsWith(v.s, p.type.s)
     THEN Raise("ValueError", "must start with '{0}'.", p.type.s)
     ELSE IF ~IsStr(v) THEN Raise("TypeError", "expected string or bytes-like object", <<>>)
     ELSE IF ~RefRegexMatch(v.s)
     THEN Raise("ValueError", "must match <object-type>--<guid>.", <<>>)
     ELSE Ok(v)

(***************************************************************************)
(* SelectorProperty                                                        *)
(***************************************************************************)
SelectorRootMin == 3

SelectorSegMin == 1

SelectorSegMax == 250

SelectorChars == LowerAlpha \cup Digits \cup {"_", "-"}

\* [a-z0-9_-]{lo,250}
IsSelectorToken(s, lo) ==
  Len(s) >= lo /\ Len(s) <= SelectorSegMax /\ AllIn(s, SelectorChars)

\* \[\d+\]
IsSelectorIndex(s) ==
  /\ Len(s) >= 3
  /\ s[1] = "[" /\ s[Len(s)] = "]"
  /\ AllIn(SubSeq(s, 2, Len(s) - 1), Digits)

\* SelectorFullMatch with the root segment held to the bound of the later ones
SelectorFullMatchAnyRoot(s) ==
  \A i \in 1..Len(SplitOn(s, ".")) :
    IsSelectorIndex(SplitOn(s, ".")[i]) \/ IsSelectorToken(SplitOn(s, ".")[i], SelectorSegMin)

\* ^[a-z0-9_-]{3,250}(\.(\[\d+\]|[a-z0-9_-]{1,250}))*$ on the whole of s: no
\* segment can hold a '.', so the segments are the pieces between the dots
SelectorFullMatch(s) ==
  LET segs == SplitOn(s, ".")
  IN /\ IsSelectorToken(segs[1], SelectorRootMin)
     /\ \A i \in 2..Len(segs) :
          IsSelectorIndex(segs[i]) \/ IsSelectorToken(segs[i], SelectorSegMin)

\* SELECTOR_REGEX.match(s): $ also matches before a newline that ends the text
SelectorRegexMatch(s) ==
  \/ SelectorFullMatch(s)
  \/ Len(s) > 0 /\ s[Len(s)] = "\n" /\ SelectorFullMatch(SubSeq(s, 1, Len(s) - 1))

\* SelectorProperty.validate
SelectorValidate(p, value) ==
  IF ~IsStr(value) THEN Raise("TypeError", "expected string or bytes-like object", <<>>)
  ELSE IF ~SelectorRegexMatch(value.s)
  THEN Raise("ValueError", "values must adhere to selector syntax", <<>>)
  ELSE Ok(value)

(***************************************************************************)
(* TimestampProperty                                                       *)
(***************************************************************************)
IsLeap(y) == (y % 4 = 0 /\ y % 100 # 0) \/ y % 400 = 0

DaysInMonth(y, mo) ==
  IF mo = 2 THEN (IF IsLeap(y) THEN 29 ELSE 28)
  ELSE IF mo \in {4, 6, 9, 11} THEN 30 ELSE 31

\* datetime.astimezone(pytz.utc): the same instant, expressed in UTC
AsUtc(t) ==
  LET m == t.h * 60 + t.mi - t.off
      shift == IF m < 0 THEN -1 ELSE IF m >= 1440 THEN 1 ELSE 0
      mm == m - shift * 1440
      prevMo == IF t.mo = 1 THEN 12 ELSE t.mo - 1
      prevY == IF t.mo = 1 THEN t.y - 1 ELSE t.y
      back == t.d = 1 /\ shift = -1
      fwd == t.d = DaysInMonth(t.y, t.mo) /\ shift = 1
  IN [y |-> IF back THEN prevY ELSE IF fwd /\ t.mo = 12 THEN t.y + 1 ELSE t.y,
      mo |-> IF back THEN prevMo ELSE IF fwd THEN (IF t.mo = 12 THEN 1 ELSE t.mo + 1) ELSE t.mo,
      d |-> IF back THEN DaysInMonth(prevY, prevMo) ELSE IF fwd THEN 1 ELSE t.d + shift,
      h |-> mm \div 60, mi |-> mm % 60,
      aware |-> TRUE, zone |-> "UTC", off |-> 0]

\* pytz.utc.localize(naive): the same wall-clock reading, labelled UTC
LocalizeUtc(t) == [t EXCEPT !.aware = TRUE, !.zone = "UTC", !.off = 0]

\* the UTC offset, in minutes, of pytz.timezone('US/Eastern') used directly
\* as a tzinfo: the zone's first entry, local mean time, -4:56
EasternOffset == 0 - (4 * 60 + 56)

\* dt.datetime.combine(value, dt.time(), tzinfo=pytz.timezone('US/Eastern'))
CombineEastern(t) ==
  [t EXCEPT !.h = 0, !.mi = 0, !.aware = TRUE, !.zone = "US/Eastern", !.off = EasternOffset]

IsoLen == 16

\* the texts of the form YYYY-MM-DDTHH:MM, optionally followed by Z or by
\* +HH:MM / -HH:MM, with fields in range
IsIsoText(s) ==
  /\ Len(s) \in {IsoLen, IsoLen + 1, IsoLen + 6}
  /\ \A i \in 1..IsoLen :
       CASE i \in {5, 8} -> s[i] = "-"
         [] i = 11 -> s[i] = "T"
         [] i = 14 -> s[i] = ":"
         [] OTHER -> s[i] \in Digits
  /\ Num4(s, 1) >= 1
  /\ Num2(s, 6) \in 1..12
  /\ Num2(s, 9) \in 1..DaysInMonth(Num4(s, 1), Num2(s, 6))
  /\ Num2(s, 12) \in 0..23
  /\ Num2(s, 15) \in 0..59
  /\ Len(s) = IsoLen + 1 => s[IsoLen + 1] = "Z"
  /\ Len(s) = IsoLen + 6 =>
       /\ s[IsoLen + 1] \in {"+", "-"}
       /\ s[IsoLen + 2] \in Digits /\ s[IsoLen + 3] \in Digits
       /\ s[IsoLen + 4] = ":"
       /\ s[IsoLen + 5] \in Digits /\ s[IsoLen + 6] \in Digits
       /\ Num2(s, IsoLen + 2) \in 0..23
       /\ Num2(s, IsoLen + 5) \in 0..59

\* dateutil's parser.parse(value) on the explored texts: an ISO text gives a
\* datetime, naive unless the text names an offset; any other explored text
\* raises ValueError; a value that is no text raises TypeError
ParserParse(value) ==
  IF ~IsStr(value) THEN Raise("TypeError", "Parser must be a string or character stream", <<>>)
  ELSE IF ~IsIsoText(value.s) THEN Raise("ValueError", "Unknown string format", <<>>)
  ELSE LET s == value.s
           hasTz == Len(s) > IsoLen
           mag == IF Len(s) = IsoLen + 6 THEN Num2(s, IsoLen + 2) * 60 + Num2(s, IsoLen + 5) ELSE 0
           off == IF hasTz /\ s[IsoLen + 1] = "-" THEN 0 - mag ELSE mag
       IN Ok(VDateTime(Num4(s, 1), Num2(s, 6), Num2(s, 9), Num2(s, 12), Num2(s, 15),
                       hasTz, IF hasTz THEN (IF off = 0 THEN "UTC" ELSE "offset") ELSE "", off))

\* TimestampProperty.validate from the try on, parsed being the outcome of
\* parser.parse(value)
TimestampValidateParsed(parsed) ==
  IF ~parsed.ok /\ parsed.err = "TypeError"
  THEN Raise("ValueError",
             "must be a datetime object, date object, or timestamp string in a recognizable format.",
             <<>>)
  ELSE IF ~parsed.ok THEN parsed
  ELSE IF parsed.val.t.aware
  THEN Ok(ValOf("datetime", <<>>, 0, FALSE, AsUtc(parsed.val.t), <<>>))
  ELSE Ok(ValOf("datetime", <<>>, 0, FALSE, LocalizeUtc(parsed.val.t), <<>>))

\* TimestampProperty.validate without the branch that returns a datetime as it is
TimestampValidateParseAll(p, value) ==
  IF value.k = "date" THEN Ok(ValOf("datetime", <<>>, 0, FALSE, CombineEastern(value.t), <<>>))
  ELSE TimestampValidateParsed(ParserParse(value))

\* TimestampProperty.validate
TimestampValidate(p, value) ==
  IF value.k = "datetime" THEN Ok(value)
  ELSE IF value.k = "date" THEN Ok(ValOf("datetime", <<>>, 0, FALSE, CombineEastern(value.t), <<>>))
  ELSE TimestampValidateParsed(ParserParse(value))

(***************************************************************************)
(* Dispatch of validate on a descriptor that is not a ListProperty.        *)
(***************************************************************************)
ScalarValidate(p, value) ==
  IF p.validateBound = "_default_validate" THEN DefaultValidate(p, value)
  ELSE CASE p.kind = "String" -> StringValidate(p, value)
         [] p.kind = "Boolean" -> BooleanValidate(p, value)
         [] p.kind = "Timestamp" -> TimestampValidate(p, value)
         [] p.kind = "ID" -> IDValidate(p, value)
         [] p.kind = "Reference" -> ReferenceValidate(p, value)
         [] p.kind = "Selector" -> SelectorValidate(p, value)
         [] OTHER -> PropertyValidate(p, value)

(***************************************************************************)
(* ListProperty                                                            *)
(***************************************************************************)
\* ListProperty.__init__(contained, **kwargs).  contained is one of
\*   [form |-> "class", kind |-> K, prop |-> <<>>]     the class K itself
\*   [form |-> "instance", kind |-> K, prop |-> <<d>>]  a descriptor d
\* and resolves to the text type, to bool, or to a descriptor.
ListProperty(contained, fixed, clean, default) ==
  LET base == PropertyInit("List", fixed, clean, default, VNone, FALSE)
  IN IF contained.form = "class" /\ contained.kind = "String"
     THEN [base EXCEPT !.contained = "str_type"]
     ELSE IF contained.form = "class" /\ contained.kind = "Boolean"
     THEN [base EXCEPT !.contained = "bool_type"]
     ELSE IF contained.form = "class"
     THEN [base EXCEPT !.contained = "instance",
                       !.containedProp = <<PropertyInit(contained.kind, VNone, NoArg, NoArg, VNone, FALSE)>>]
     ELSE [base EXCEPT !.contained = "instance", !.containedProp = contained.prop]

\* iter(value) succeeds
IsIterable(v) == v.k \in {"list", "str", "dict"}

\* the items a for loop over value visits
ItemsOf(v) ==
  IF v.k = "str" THEN [i \in 1..Len(v.s) |-> VStr(<<v.s[i]>>)] ELSE v.items

\* self.contained.validate(item), a type having no validate attribute
ContainedValidate(p, item) ==
  IF p.contained = "instance" THEN ScalarValidate(p.containedProp[1], item)
  ELSE Raise("AttributeError", "validate", <<>>)

\* self.contained(**valid) for a dict, self.contained(valid) otherwise
ContainedCall(p, valid) ==
  IF valid.k = "dict"
  THEN IF Len(valid.items) = 0
       THEN CASE p.contained = "str_type" -> Ok(VStr(<<>>))
              [] p.contained = "bool_type" -> Ok(VBool(FALSE))
              [] OTHER -> Ok(VNone)
       ELSE IF p.contained = "instance"
               /\ \A i \in 1..Len(valid.items) : valid.items[i].s = <<"v", "a", "l", "u", "e">>
            THEN Ok(PropertyCall(VNone))
            ELSE Raise("TypeError", "unexpected keyword argument", <<>>)
  ELSE CASE p.contained = "str_type" -> Ok(VStr(PyStr(valid)))
         [] p.contained = "bool_type" -> Ok(VBool(Truthy(valid)))
         [] OTHER -> Ok(PropertyCall(valid))

\* the try statement of the loop body: valid, or the exception that escapes;
\* r is the outcome of self.contained.validate(item)
ListItemValid(item, r) ==
  IF ~r.ok /\ r.err = "AttributeError" THEN Ok(item) ELSE r

\* the append of the loop body, valid being the outcome of the try statement
ListItemWrap(p, valid) ==
  IF valid.ok THEN ContainedCall(p, valid.val) ELSE valid

\* one pass of the loop body of ListProperty.validate
ListItem(p, item) == ListItemWrap(p, ListItemValid(item, ContainedValidate(p, item)))

\* the loop of ListProperty.validate: result after the first i items, or the
\* exception that ended the loop
ListLoop(p, items) ==
  LET step(acc, r) == IF r.ok THEN Ok(VList(Append(acc.val.items, r.val))) ELSE r
      R[i \in 0..Len(items)] ==
        IF i = 0 THEN Ok(VList(<<>>))
        ELSE IF ~R[i - 1].ok THEN R[i - 1]
        ELSE step(R[i - 1], ListItem(p, items[i]))
  IN R[Len(items)]

\* the end of ListProperty.validate without the check of len(result)
ListNonEmptyUnchecked(r) == r

\* the end of ListProperty.validate, r being the outcome of the loop
ListNonEmpty(r) ==
  IF ~r.ok THEN r
  ELSE IF Len(r.val.items) < 1 THEN Raise("ValueError", "must not be empty.", <<>>)
  ELSE r

\* ListProperty.validate
ListValidate(p, value) ==
  IF ~IsIterable(value) THEN Raise("ValueError", "must be an iterable.", <<>>)
  ELSE ListNonEmpty(ListLoop(p, ItemsOf(value)))

(***************************************************************************)
(* property.validate(value) and property.default() on any descriptor.      *)
(***************************************************************************)
Validate(p, value) ==
  IF p.validateBound = "_default_validate" THEN DefaultValidate(p, value)
  ELSE IF p.kind = "List" THEN ListValidate(p, value)
  ELSE ScalarValidate(p, value)

HasDefault(p) == p.defaultBound # "absent"

\* property.default(), u being the text uuid4 produces when IDProperty asks
Default(p, u) ==
  CASE p.defaultBound = "override" -> p.defaultValue
    [] p.defaultBound = "fixed" -> p.fixed_value
    [] p.defaultBound = "class" -> IDDefault(p, u)

(***************************************************************************)
(* The explored constructions and raw inputs.                              *)
(***************************************************************************)
TMalware == <<"m", "a", "l", "w", "a", "r", "e">>

TCampaign == <<"c", "a", "m", "p", "a", "i", "g", "n">>

TMalwareX == <<"m", "a", "l", "w", "a", "r", "e", "-", "x">>

TDashed == <<"x", "-", "-", "y">>

Sep == <<"-", "-">>

\* 8-4-4-4-12 text with every digit c, version digit ver and variant digit var
MkUuid(c, ver, var) ==
  Rep(c, 8) \o <<"-">> \o Rep(c, 4) \o <<"-", ver>> \o Rep(c, 3) \o <<"-", var>> \o Rep(c, 3)
  \o <<"-">> \o Rep(c, 12)

\* the texts str(uuid.uuid4()) can produce, among the explored ones
Uuid4s == {MkUuid("0", "4", "8"), MkUuid("a", "4", "b")}

UuidTexts ==
  Uuid4s \cup
  {MkUuid("F", "4", "9"),
   MkUuid("0", "1", "8"),
   MkUuid("g", "4", "8"),
   SubSeq(MkUuid("0", "4", "8"), 1, UuidTextLen - 1),
   <<"{">> \o MkUuid("0", "4", "8") \o <<"}">>,
   Remove(MkUuid("0", "4", "8"), <<"-">>),
   <<"u", "r", "n", ":", "u", "u", "i", "d", ":">> \o MkUuid("0", "4", "8"),
   MkUuid("0", "4", "8") \o <<"\n">>}

IdTexts ==
  {t \o Sep \o u : t \in {<<>>, TMalware, TCampaign, TMalwareX, TDashed}, u \in UuidTexts}

SelectorTexts ==
  {<<"a", ".", "b", ".", "[", "0", "]", ".", "c">>, <<"a", "b", "c", ".", "b", ".", "[", "0", "]", ".", "c">>, <<"a", "b">>, <<"a", "b", "c">>, <<"a", "b", "c", ".">>, <<"a", "b", "c", ".", "[", "x", "]">>, <<"a", "b", "c", ".", "[", "]">>,
   <<"a", "b", "c", ".", "B">>, <<"a", "_", "1", "-", "b", ".", "[", "1", "2", "]", ".", "c">>, <<"a", "b", "c", ".", "[", "0", "]">> \o <<"\n">>,
   Rep("a", SelectorSegMax), Rep("a", SelectorSegMax + 1),
   <<"a", "b", "c", ".">> \o Rep("a", SelectorSegMax + 1)}

BooleanTexts == {<<"t", "r", "u", "e">>, <<"T">>, <<"f">>, <<"F", "a", "l", "s", "e">>, <<"m", "a", "y", "b", "e">>, <<"1">>, <<>>}

IsoTexts ==
  {<<"2", "0", "1", "7", "-", "0", "1", "-", "0", "1", "T", "1", "2", ":", "3", "0">>, <<"2", "0", "1", "7", "-", "0", "1", "-", "0", "1", "T", "1", "2", ":", "3", "0", "Z">>, <<"2", "0", "1", "7", "-", "0", "1", "-", "0", "1", "T", "0", "1", ":", "3", "0", "+", "0", "2", ":", "0", "0">>,
   <<"2", "0", "1", "6", "-", "1", "2", "-", "3", "1", "T", "2", "3", ":", "3", "0", "-", "0", "5", ":", "0", "0">>, <<"2", "0", "1", "6", "-", "0", "2", "-", "2", "8", "T", "2", "3", ":", "0", "0", "-", "0", "1", ":", "3", "0">>}

Dates == {VDate(2017, 1, 1), VDate(2016, 2, 29)}

DateTimes ==
  {VDateTime(2017, 1, 1, 12, 30, FALSE, "", 0),
   VDateTime(2017, 1, 1, 12, 30, TRUE, "UTC", 0),
   VDateTime(2017, 1, 1, 14, 30, TRUE, "offset", 120)}

NonTexts ==
  {VNone, VBool(TRUE), VBool(FALSE)} \cup {VInt(i) : i \in 0..MaxInt} \cup Dates \cup DateTimes

Texts == {VStr(s) : s \in IdTexts \cup SelectorTexts \cup BooleanTexts \cup IsoTexts \cup {TMalware}}

\* instances of _STIXBase, by their id
Objs == {VObj(TMalware \o Sep \o u) : u \in Uuid4s} \cup {VObj(TCampaign \o Sep \o MkUuid("0", "4", "8"))}

\* parser.parse is modelled on the ISO texts and on plain words only
TimestampInputs == NonTexts \cup {VStr(s) : s \in IsoTexts \cup {TMalware, TCampaign}}

ListElems ==
  {VStr(<<"a">>), VStr(<<"t", "r", "u", "e">>), VStr(TMalware \o Sep \o MkUuid("0", "4", "8")),
   VStr(TMalwareX \o Sep \o MkUuid("0", "4", "8")),
   VInt(1), VNone, VDict(<<>>), VDict(<<VStr(<<"t", "y", "p", "e">>)>>), VDict(<<VStr(<<"v", "a", "l", "u", "e">>)>>)}

RECURSIVE SeqsUpTo(_, _)
SeqsUpTo(S, n) ==
  IF n = 0 THEN {<<>>}
  ELSE LET shorter == SeqsUpTo(S, n - 1)
       IN shorter \cup {Append(q, x) : q \in {r \in shorter : Len(r) = n - 1}, x \in S}

ListInputs ==
  {VList(q) : q \in SeqsUpTo(ListElems, MaxListLen)}
  \cup {VNone, VInt(1), VStr(<<>>), VStr(<<"a", "b">>), VDict(<<>>), VDict(<<VStr(<<"t", "y", "p", "e">>)>>)}

FixedArgs == {VNone, VStr(<<>>), VStr(TMalware)}

CleanArgs == {NoArg, Arg(VNone)}

\* default= : lambda: 'campaign'
DefaultArgs == {NoArg, Arg(VStr(TCampaign))}

ContainedArgs ==
  {[form |-> "class", kind |-> k, prop |-> <<>>] :
     k \in {"String", "Boolean", "Timestamp", "Selector", "Reference", "Property"}}
  \cup
  {[form |-> "instance", kind |-> d.kind, prop |-> <<d>>] :
     d \in {IDProperty(TMalware), ReferenceProperty(VStr(TMalware)), ReferenceProperty(VNone),
            StringProperty(VNone, NoArg, NoArg), BooleanProperty(VNone, NoArg, NoArg),
            TypeProperty(VStr(TMalware)), SelectorProperty(VNone)}}

\* the constructor calls explored
Ctors ==
  {[cls |-> c, fixed |-> f, clean |-> cl, default |-> d, type |-> VNone, contained |-> <<>>] :
     c \in {"Property", "String"}, f \in FixedArgs, cl \in CleanArgs, d \in DefaultArgs}
  \cup {[cls |-> c, fixed |-> f, clean |-> NoArg, default |-> d, type |-> VNone, contained |-> <<>>] :
     c \in {"Boolean", "Timestamp"}, f \in {VNone, VBool(TRUE)}, d \in {NoArg}}
  \cup {[cls |-> c, fixed |-> VNone, clean |-> NoArg, default |-> NoArg, type |-> VStr(ty), contained |-> <<>>] :
     c \in {"Type", "ID"}, ty \in {TMalware, TCampaign, TDashed}}
  \cup {[cls |-> c, fixed |-> VNone, clean |-> NoArg, default |-> NoArg, type |-> ty, contained |-> <<>>] :
     c \in {"Reference", "Selector"}, ty \in {VNone, VStr(TMalware)}}
  \cup {[cls |-> "List", fixed |-> VNone, clean |-> NoArg, default |-> NoArg, type |-> VNone, contained |-> <<c>>] :
     c \in ContainedArgs}

\* the descriptor a constructor call builds
Construct(c) ==
  CASE c.cls = "Property" -> BaseProperty(c.fixed, c.clean, c.default)
    [] c.cls = "String" -> StringProperty(c.fixed, c.clean, c.default)
    [] c.cls = "Boolean" -> BooleanProperty(c.fixed, c.clean, c.default)
    [] c.cls = "Timestamp" -> TimestampProperty(c.fixed, c.clean, c.default)
    [] c.cls = "Type" -> TypeProperty(c.type)
    [] c.cls = "ID" -> IDProperty(c.type.s)
    [] c.cls = "Reference" -> ReferenceProperty(c.type)
    [] c.cls = "Selector" -> SelectorProperty(c.type)
    [] c.cls = "List" -> ListProperty(c.contained[1], c.fixed, c.clean, c.default)

InputsFor(c) ==
  CASE c.cls = "List" -> ListInputs
    [] c.cls = "Timestamp" -> TimestampInputs
    [] c.cls = "Reference" -> NonTexts \cup Texts \cup Objs
    [] OTHER -> NonTexts \cup Texts

(***************************************************************************)
(* The state machine: a descriptor is constructed, then validate or        *)
(* default is called on it, then validate is called on what came back.     *)
(***************************************************************************)
Init ==
  /\ ctor \in Ctors
  /\ prop = Construct(ctor)
  /\ input \in InputsFor(ctor)
  /\ pc = "start"
  /\ result = NoResult
  /\ result2 = NoResult

\* property.validate(input)
DoValidate ==
  /\ pc = "start"
  /\ result' = Validate(prop, input)
  /\ pc' = "validated"
  /\ UNCHANGED <<ctor, prop, input, result2>>

\* property.default()
DoDefault ==
  /\ pc = "start"
  /\ HasDefault(prop)
  /\ \E u \in Uuid4s : result' = Ok(Default(prop, u))
  /\ pc' = "defaulted"
  /\ UNCHANGED <<ctor, prop, input, result2>>

\* property.validate(v), v being what the first call returned
DoRevalidate ==
  /\ pc \in {"validated", "defaulted"}
  /\ result.ok
  /\ result2' = Validate(prop, result.val)
  /\ pc' = IF pc = "validated" THEN "revalidated" ELSE "default_validated"
  /\ UNCHANGED <<ctor, prop, input, result>>

Next == DoValidate \/ DoDefault \/ DoRevalidate

Spec == Init /\ [][Next]_vars

(***************************************************************************)
(* Properties.                                                             *)
(***************************************************************************)
\* the fixed= argument of the construction (TypeProperty passes its type)
FixedOf(c) == IF c.cls = "Type" THEN c.type ELSE c.fixed

\* C1: a property constructed with a fixed value, whatever clean= or
\* default= it is also given, has default() return the fixed value and
\* validate(v) return v when v equals the fixed value and fail with
\* "must equal '<fixed>'" otherwise.  (Stated for the fixed values the
\* constructor's test "if fixed" lets through.)
C1_FixedWins ==
  Truthy(FixedOf(ctor)) =>
    /\ pc = "defaulted" => result = Ok(FixedOf(ctor))
    /\ pc = "validated" =>
         IF PyEq(input, FixedOf(ctor)) THEN result = Ok(input)
         ELSE result = Raise("ValueError", "must equal '{0}'.", PyStr(FixedOf(ctor)))

\* a datetime that is timezone-aware and in UTC
IsUtc(v) == v.k = "datetime" /\ v.t.aware /\ v.t.zone = "UTC" /\ v.t.off = 0

\* C2: whatever TimestampProperty.validate returns (for a datetime, a date,
\* a text with an offset, a text without one) is timezone-aware and in UTC.
C2_TimestampUtc ==
  (pc = "validated" /\ ctor.cls = "Timestamp" /\ prop.validateBound = "class" /\ result.ok)
    => IsUtc(result.val)

\* the text a reference is validated on
RefText(v) == IF v.k = "obj" THEN v.s ELSE IF v.k = "str" THEN v.s ELSE <<>>

\* C3: a ReferenceProperty with target type t accepts only values that
\* start with "t--", and rejects a well-formed reference whose type token
\* is not t with the prefix-mismatch error.
C3_ReferencePrefix ==
  (pc = "validated" /\ ctor.cls = "Reference" /\ Truthy(ctor.type)) =>
    /\ result.ok => StartsWith(result.val.s, ctor.type.s \o Sep)
    /\ (RefFullMatch(RefText(input)) /\ ~StartsWith(RefText(input), ctor.type.s \o Sep))
         => result = Raise("ValueError", "must start with '{0}'.", ctor.type.s)

\* a UUID text, in any of the spellings uuid.UUID reads, whose version digit is 4
IsVersion4(s) == UuidParses(s) /\ UuidDigits(s)[13] = "4"

\* C4: IDProperty(t).validate accepts an input only if it starts with "t--"
\* and what follows the first "--" is a version-4 UUID (a UUID of another
\* version is rejected with the UUID-format error); it returns an accepted
\* input as it is.
C4_IdVersion4 ==
  (pc = "validated" /\ ctor.cls = "ID") =>
    /\ result.ok =>
         /\ input.k = "str"
         /\ StartsWith(input.s, ctor.type.s \o Sep)
         /\ IsVersion4(AfterFirst(input.s, Sep))
         /\ result.val = input
    /\ (input.k = "str" /\ StartsWith(input.s, ctor.type.s \o Sep)
        /\ ~IsVersion4(AfterFirst(input.s, Sep)))
         => result = Raise("ValueError", "must have a valid version 4 UUID after the prefix.", <<>>)

SelABC == VStr(<<"a", ".", "b", ".", "[", "0", "]", ".", "c">>)

SelAbcBC == VStr(<<"a", "b", "c", ".", "b", ".", "[", "0", "]", ".", "c">>)

\* the characters of a text before its first "."
RootOf(s) == IF FindFirst(s, <<".">>) = 0 THEN s ELSE SubSeq(s, 1, FindFirst(s, <<".">>) - 1)

\* C5 as stated: SelectorProperty().validate("a.b.[0].c") succeeds and
\* returns its input.
C5_SingleCharRootAccepted ==
  (pc = "validated" /\ ctor.cls = "Selector" /\ input = SelABC) => result = Ok(input)

\* C5 as amended: SelectorProperty().validate("a.b.[0].c") fails with
\* "values must adhere to selector syntax", the root segment of every
\* accepted selector having at least 3 characters; "abc.b.[0].c" succeeds,
\* and an accepted selector is returned as it is.
C5_RootOfThree ==
  (pc = "validated" /\ ctor.cls = "Selector") =>
    /\ input = SelABC => result = Raise("ValueError", "values must adhere to selector syntax", <<>>)
    /\ input = SelAbcBC => result = Ok(input)
    /\ result.ok => (result.val = input /\ Len(RootOf(input.s)) >= 3)

C5_Witness ==
  pc = "validated" /\ ctor.cls = "Selector" /\ input = SelABC /\ ~result.ok

\* C6: validate, on any property and any raw input, returns a value or
\* raises ValueError; no other exception escapes.
C6_OnlyValueError ==
  pc = "validated" => (result.ok \/ result.err = "ValueError")

\* C7: IDProperty(t).default() is "t--" followed by a version-4 UUID, and
\* IDProperty(t).validate accepts it and returns it as it is.
C7_DefaultValidates ==
  ctor.cls = "ID" =>
    /\ pc \in {"defaulted", "default_validated"} =>
         /\ StartsWith(result.val.s, ctor.type.s \o Sep)
         /\ SubSeq(result.val.s, Len(ctor.type.s) + 3, Len(result.val.s)) \in Uuid4s
    /\ pc = "default_validated" => result2 = Ok(result.val)

\* C8: ListProperty.validate never returns an empty list: it returns a list
\* of at least one element or fails, with "must be an iterable." for an input
\* that cannot be iterated and "must not be empty." when there was no element.
C8_ListNeverEmpty ==
  (pc = "validated" /\ ctor.cls = "List") =>
    /\ result.ok => (result.val.k = "list" /\ Len(result.val.items) >= 1)
    /\ ~IsIterable(input) => result = Raise("ValueError", "must be an iterable.", <<>>)
    /\ (IsIterable(input) /\ Len(ItemsOf(input)) = 0)
         => result = Raise("ValueError", "must not be empty.", <<>>)

C8_Witness ==
  /\ pc = "validated" /\ ctor.cls = "List"
  /\ input = VList(<<>>)
  /\ result = Raise("ValueError", "must not be empty.", <<>>)

ScalarKinds == {"String", "Boolean", "ID", "Reference", "Selector", "Timestamp"}

\* C9: for a scalar kind, and for Timestamp once the value is in UTC,
\* validating a validated value succeeds and returns an equal value.
C9_Idempotent ==
  (/\ pc = "revalidated"
   /\ ctor.cls \in ScalarKinds
   /\ ctor.cls = "Timestamp" => IsUtc(result.val))
    => result2 = Ok(result.val)

C9_Witness ==
  /\ pc = "revalidated" /\ ctor.cls = "Timestamp"
  /\ input = VStr(<<"2", "0", "1", "7", "-", "0", "1", "-", "0", "1", "T", "0", "1", ":", "3", "0", "+", "0", "2", ":", "0", "0">>)
  /\ result.val = VDateTime(2016, 12, 31, 23, 30, TRUE, "UTC", 0)
  /\ result2 = Ok(result.val)

\* C10: a ListProperty whose element validator is a property descriptor
\* returns a list only if that descriptor's validate succeeded on every
\* element of the input.
C10_ListAllAccepted ==
  (pc = "validated" /\ ctor.cls = "List" /\ prop.contained = "instance"
   /\ prop.validateBound = "class" /\ result.ok)
    => \A i \in 1..Len(ItemsOf(input)) : ScalarValidate(prop.containedProp[1], ItemsOf(input)[i]).ok

====
